---- MODULE Spec2Model ----
(***************************************************************************)
(* A model of naia's per-connection reliability and framing core:          *)
(*   - AckManager            (shared/src/ack_manager.rs)                   *)
(*   - PacketWriter          (src/packet_writer.rs)                        *)
(*   - ServerConnection      (client/src/server_connection.rs)             *)
(* SequenceBuffer, StandardHeader, EventManager, Timer and PacketReader    *)
(* are collaborators whose code is described by the specification only;    *)
(* they are modelled from its text.                                        *)
(***************************************************************************)
EXTENDS Integers, Naturals, Sequences, FiniteSets, Bags, TLC

VARIABLES
    am,          \* the AckManager: sequence_number, remote_ack_sequence_num,
                 \* sent_packets, received_packets
    lastOp,      \* which operation ran last
    last_in,     \* header read by the last process_incoming
    last_out,    \* header written by the last process_outgoing
    last_notifs, \* notifications emitted by the last process_incoming, in order
    notified,    \* bag of every notification emitted so far
    sent_log,    \* (sequence, packet_type) of every header written, in order
    received,    \* header sequences handed to process_incoming so far
    n_in,        \* number of process_incoming calls so far
    s0,          \* the local sequence number when observation started
    pw,          \* the PacketWriter: working bytes and counts of both sections
    pw_prev,     \* the writer before its last call
    pw_op,       \* the writer's last call
    pw_ret,      \* what the last write returned
    pw_in,       \* payload length of the item given to the last write
    pw_items,    \* items accepted since the last get_bytes, in order
    pw_body,     \* the body returned by get_bytes, when it was the last call
    n_writes,    \* writes since the last get_bytes
    em,          \* the EventManager: outgoing queue, sent events, inbox
    timeout_last,  \* when the timeout timer was last reset: an arrival number,
                   \* or an instant of the clock where the clock is modelled
    out_packet,  \* what the last get_outgoing_packet returned
    packet_events, \* ids of the events written into each packet, by sequence
    last_body,   \* the stripped payload of the last datagram received
    n_queued,    \* number of queue_event calls so far
    clock,       \* the instant now
    heartbeat_last,  \* the instant the heartbeat timer was last reset
    transmit_at, \* the instant of the last packet transmitted (0: none yet)
    heard_at,    \* the instant of the last incoming header processed
    peers,       \* two connected peers: the AckManager of each
    net,         \* the datagrams sent so far; the channel may deliver any of
                 \* them, at any time, any number of times, or never
    processed,   \* per peer: the sequences of the packets it has processed
    peer_notified, \* per peer: the notifications its process_incoming emitted
    last_rt,     \* the last delivery: what was sent and what was read
    n_deliveries \* deliveries so far

ackVars == <<am, lastOp, last_in, last_out, last_notifs, notified, sent_log,
             received, n_in, s0>>
pwVars == <<pw, pw_prev, pw_op, pw_ret, pw_in, pw_items, pw_body, n_writes>>
connVars == <<em, timeout_last, out_packet, packet_events, last_body,
              n_queued>>
timerVars == <<clock, heartbeat_last, transmit_at, heard_at>>
peerVars == <<peers, net, processed, peer_notified, last_rt, n_deliveries>>

----------------------------------------------------------------------------
(* Program constants *)

\* SequenceNumber is u16
SeqMod == 65536
HalfSeq == 32768
REDUNDANT_PACKET_ACKS_SIZE == 32
\* StandardHeader::bytes_number(): packet_type u8, sequence u16, ack_seq u16,
\* ack_field u32
HeaderBytes == 9
None == -1

(* Bounds of the model *)
\* process_outgoing calls in one run
MaxSends == 5
\* process_incoming calls in one run
MaxIncoming == 2
\* Heartbeat packets among the sends
MaxHeartbeats == 1
\* process_outgoing / process_incoming calls in one run of the long-window
\* specification
MaxWindowSends == 35
MaxWindowIncoming == 2
\* writes between two get_bytes
MaxWrites == 4
\* writes of smallest items between two get_bytes
MaxCountWrites == 257
\* queue_event calls in one run
MaxQueued == 3
\* get_outgoing_packet calls that return a packet, in one run
MaxPackets == 3
\* datagrams the connection receives in one run
MaxDatagrams == 1
\* the timers: instants of the clock, and what the owner does in one run
MaxClock == 5
MaxTimerQueued == 1
MaxTimerSends == 3
MaxTimerDatagrams == 2
\* Config: heartbeat_interval and disconnection_timeout_duration, in ticks
heartbeat_interval == 2
disconnection_timeout_duration == 3
\* two peers: packets sent by both together, and deliveries, in one run
MaxPeerSends == 3
MaxPeerDeliveries == 3

----------------------------------------------------------------------------
(* u16 arithmetic *)

WrappingAdd(a, b) == (a + b) % SeqMod
WrappingSub(a, b) == (a - b + SeqMod) % SeqMod

\* a > b in wrap-around order
sequence_greater_than(a, b) == a # b /\ WrappingSub(a, b) < HalfSeq
sequence_less_than(a, b) == sequence_greater_than(b, a)

----------------------------------------------------------------------------
(* StandardHeader: 9 bytes, big-endian *)

PacketTypes == {"Data", "Heartbeat"}
PacketTypeByte(t) == IF t = "Data" THEN 1 ELSE 2
PacketTypeOfByte(b) == IF b = 1 THEN "Data" ELSE "Heartbeat"

StandardHeaderNew(packet_type, seq_num, last_seq, bit_field) ==
    [packet_type |-> packet_type, sequence |-> seq_num,
     ack_seq |-> last_seq, ack_field |-> bit_field]

\* A u32 is held as the set of its set bit positions, 0 (least significant)
\* to 31: TLC's integers stop short of 2^32.
BitWeight(field, pos, weight) == IF pos \in field THEN weight ELSE 0

\* byte k (0 = least significant) of a u32
U32Byte(field, k) ==
    BitWeight(field, 8 * k, 1) + BitWeight(field, 8 * k + 1, 2)
    + BitWeight(field, 8 * k + 2, 4) + BitWeight(field, 8 * k + 3, 8)
    + BitWeight(field, 8 * k + 4, 16) + BitWeight(field, 8 * k + 5, 32)
    + BitWeight(field, 8 * k + 6, 64) + BitWeight(field, 8 * k + 7, 128)

\* the bits of byte value v, placed at byte k of a u32
ByteBits(v, k) == {8 * k + j : j \in {j \in 0..7 : (v \div (2 ^ j)) % 2 = 1}}

StandardHeaderWrite(h) ==
    << PacketTypeByte(h.packet_type),
       h.sequence \div 256, h.sequence % 256,
       h.ack_seq \div 256, h.ack_seq % 256,
       U32Byte(h.ack_field, 3), U32Byte(h.ack_field, 2),
       U32Byte(h.ack_field, 1), U32Byte(h.ack_field, 0) >>

\* (header, stripped_message)
StandardHeaderRead(payload) ==
    [header |-> [packet_type |-> PacketTypeOfByte(payload[1]),
                 sequence |-> payload[2] * 256 + payload[3],
                 ack_seq |-> payload[4] * 256 + payload[5],
                 ack_field |-> ByteBits(payload[6], 3) \cup ByteBits(payload[7], 2)
                               \cup ByteBits(payload[8], 1)
                               \cup ByteBits(payload[9], 0)],
     stripped |-> SubSeq(payload, HeaderBytes + 1, Len(payload))]

----------------------------------------------------------------------------
(* SequenceBuffer<ReceivedPacket> with capacity REDUNDANT_PACKET_ACKS_SIZE+1 *)

Capacity == REDUNDANT_PACKET_ACKS_SIZE + 1

SequenceBufferNew ==
    [sequence_num |-> 0, entry_sequences |-> [i \in 0..(Capacity - 1) |-> None]]

SbIndex(seq) == seq % Capacity

SbExists(sb, seq) == sb.entry_sequences[SbIndex(seq)] = seq

\* entries more than Capacity-1 behind the newest sequence are discarded
SbEvict(entries, newest) ==
    [i \in DOMAIN entries |->
        IF entries[i] # None
           /\ sequence_less_than(entries[i], WrappingSub(newest, Capacity - 1))
        THEN None ELSE entries[i]]

SbInsert(sb, seq) ==
    IF sequence_less_than(seq, WrappingSub(sb.sequence_num, Capacity))
    THEN sb   \* too old: no longer within capacity of the head
    ELSE LET advance == sequence_greater_than(WrappingAdd(seq, 1), sb.sequence_num)
             kept == IF advance THEN SbEvict(sb.entry_sequences, seq)
                     ELSE sb.entry_sequences
         IN [sequence_num |-> IF advance THEN WrappingAdd(seq, 1)
                              ELSE sb.sequence_num,
             entry_sequences |-> [kept EXCEPT ![SbIndex(seq)] = seq]]

----------------------------------------------------------------------------
(* AckManager *)

EmptyMap == [k \in {} |-> None]

AckManagerNew ==
    [sequence_number |-> 0,
     remote_ack_sequence_num |-> SeqMod - 1,
     sent_packets |-> EmptyMap,
     received_packets |-> SequenceBufferNew]

local_sequence_num(m) == m.sequence_number

\* faulty variant: the head of the buffer itself, one past the last received
remote_sequence_num_ahead(m) == m.received_packets.sequence_num

remote_sequence_num(m) == WrappingSub(m.received_packets.sequence_num, 1)

\* the mask of the i-th iteration: bit i-1 (mask starts at 1, shifted left
\* once per iteration)
MaskOf(i) == {i - 1}

\* faulty variant: probing from the most recent sequence itself
ProbedSequenceFromHead(most_recent, i) == WrappingSub(most_recent, i - 1)

\* the sequence probed in the i-th iteration
ProbedSequence(most_recent, i) == WrappingSub(most_recent, i)

\* for i in 1..=32: the bit is set when the probed sequence exists
ack_bitfield(m) ==
    UNION {IF SbExists(m.received_packets,
                       ProbedSequence(remote_sequence_num(m), i))
           THEN MaskOf(i) ELSE {} : i \in 1..REDUNDANT_PACKET_ACKS_SIZE}

MapRemove(f, k) == [x \in (DOMAIN f) \ {k} |-> f[x]]
MapInsert(f, k, v) == [x \in (DOMAIN f) \cup {k} |-> IF x = k THEN v ELSE f[x]]

Delivered(s) == [kind |-> "delivered", seq |-> s]
Dropped(s) == [kind |-> "dropped", seq |-> s]

\* notify_packet_delivered / notify_packet_dropped are called for Data only
NotifyDelivered(sent_packet, s, notifs) ==
    IF sent_packet.packet_type = "Data" THEN Append(notifs, Delivered(s))
    ELSE notifs

\* faulty variant: dropped is reported whatever the packet type
NotifyDroppedAnyType(sent_packet, s, notifs) == Append(notifs, Dropped(s))

NotifyDropped(sent_packet, s, notifs) ==
    IF sent_packet.packet_type = "Data" THEN Append(notifs, Dropped(s))
    ELSE notifs

\* if remote_ack_seq > remote_ack_sequence_num, take it
NextRemoteAck(current, remote_ack_seq) ==
    IF sequence_greater_than(remote_ack_seq, current) THEN remote_ack_seq
    ELSE current

\* faulty variant: the entry of remote_ack_seq is notified but stays in sent_packets
AckHeadKeeping(sent, remote_ack_seq) ==
    IF remote_ack_seq \in DOMAIN sent
    THEN [sent |-> sent,
          notifs |-> NotifyDelivered(sent[remote_ack_seq], remote_ack_seq, <<>>)]
    ELSE [sent |-> sent, notifs |-> <<>>]

\* the entry of remote_ack_seq itself: delivered and removed
AckHead(sent, remote_ack_seq) ==
    IF remote_ack_seq \in DOMAIN sent
    THEN [sent |-> MapRemove(sent, remote_ack_seq),
          notifs |-> NotifyDelivered(sent[remote_ack_seq], remote_ack_seq, <<>>)]
    ELSE [sent |-> sent, notifs |-> <<>>]

\* faulty variant: a clear bit leaves the entry waiting
AckStepWaiting(st, ack_sequence, bit) ==
    IF ack_sequence \in DOMAIN st.sent /\ bit = 1
    THEN [sent |-> MapRemove(st.sent, ack_sequence),
          notifs |-> NotifyDelivered(st.sent[ack_sequence], ack_sequence,
                                     st.notifs)]
    ELSE st

\* one iteration of the loop over the ack field
AckStep(st, ack_sequence, bit) ==
    IF ack_sequence \in DOMAIN st.sent
    THEN IF bit = 1
         THEN [sent |-> MapRemove(st.sent, ack_sequence),
               notifs |-> NotifyDelivered(st.sent[ack_sequence], ack_sequence,
                                          st.notifs)]
         ELSE [sent |-> MapRemove(st.sent, ack_sequence),
               notifs |-> NotifyDropped(st.sent[ack_sequence], ack_sequence,
                                        st.notifs)]
    ELSE st

\* remote_ack_field & 1 in the i-th iteration: the field has been shifted
\* right i-1 times, so its low bit is bit i-1 of the header's field
AckBit(field, i) == IF (i - 1) \in field THEN 1 ELSE 0

RECURSIVE AckLoop(_, _, _, _)
AckLoop(st, remote_ack_seq, remote_ack_field, i) ==
    IF i > REDUNDANT_PACKET_ACKS_SIZE THEN st
    ELSE AckLoop(AckStep(st, WrappingSub(remote_ack_seq, i),
                         AckBit(remote_ack_field, i)),
                 remote_ack_seq, remote_ack_field, i + 1)

\* (manager after the call, notifications emitted, stripped message)
process_incoming(m, payload) ==
    LET rd == StandardHeaderRead(payload)
        header == rd.header
        acked == AckLoop(AckHead(m.sent_packets, header.ack_seq),
                         header.ack_seq, header.ack_field, 1)
    IN [am |-> [sequence_number |-> m.sequence_number,
                remote_ack_sequence_num |->
                    NextRemoteAck(m.remote_ack_sequence_num, header.ack_seq),
                sent_packets |-> acked.sent,
                received_packets |-> SbInsert(m.received_packets, header.sequence)],
        notifs |-> acked.notifs,
        header |-> header,
        stripped |-> rd.stripped]

SentPacket(seq, packet_type) == [id |-> seq, packet_type |-> packet_type]

\* faulty variant: the header goes after the payload
process_outgoing_trailing(m, packet_type, payload) ==
    LET header == StandardHeaderNew(packet_type, local_sequence_num(m),
                                    remote_sequence_num(m), ack_bitfield(m))
    IN [am |-> [m EXCEPT
                  !.sent_packets = MapInsert(@, m.sequence_number,
                                      [id |-> m.sequence_number,
                                       packet_type |-> packet_type]),
                  !.sequence_number = WrappingAdd(m.sequence_number, 1)],
        header |-> header,
        bytes |-> payload \o StandardHeaderWrite(header)]

\* faulty variant: the bump without the wrap
NextSequenceNoWrap(s) == s + 1

\* self.sequence_number.wrapping_add(1)
NextSequence(s) == WrappingAdd(s, 1)

\* (manager after the call, header written, framed bytes)
process_outgoing(m, packet_type, payload) ==
    LET header == StandardHeaderNew(packet_type, local_sequence_num(m),
                                    remote_sequence_num(m), ack_bitfield(m))
    IN [am |-> [m EXCEPT
                  !.sent_packets = MapInsert(@, m.sequence_number,
                                      SentPacket(m.sequence_number, packet_type)),
                  !.sequence_number = NextSequence(m.sequence_number)],
        header |-> header,
        bytes |-> StandardHeaderWrite(header) \o payload]

----------------------------------------------------------------------------
(* A manager in mid-life: `start` packets were sent, each answered by the    *)
(* peer's packet of the same sequence acknowledging it, so nothing is in     *)
(* flight and the buffer holds the peer's last 33 sequences.                 *)

LockStep(start) ==
    [sequence_number |-> start,
     remote_ack_sequence_num |-> WrappingSub(start, 1),
     sent_packets |-> EmptyMap,
     received_packets |->
        [sequence_num |-> start,
         entry_sequences |->
            [i \in 0..(Capacity - 1) |->
                CHOOSE s \in {WrappingSub(start, k) : k \in 1..Capacity} :
                    SbIndex(s) = i]]]

HeldSequences(sb) ==
    {sb.entry_sequences[i] : i \in DOMAIN sb.entry_sequences} \ {None}

\* where the local (and the peer's) numbering stands when observation starts
StartSeqs == {0, 65534}

----------------------------------------------------------------------------
(* The inputs: what a peer running the same protocol can send *)

\* the peer acknowledges one of our packets: the latest, or an older one when
\* its packets arrive out of order (offset = number sent so far: none yet)
AckOffsets == {0, 2}
\* the peer's ack fields: nothing before ack_seq, 0b1011, everything
FieldChoices == {{}, {0, 1, 3}, 0..31}
\* the peer's sequence, counted from where its numbering stood at the start
RemoteOffsets == {0, 2, 3, 35}

DataBody == <<1, 1, 0, 7, 1, 42>>

\* the elements of a sequence
Range(q) == {q[i] : i \in DOMAIN q}

RECURSIVE BagOfSeq(_)
BagOfSeq(q) == IF q = <<>> THEN EmptyBag
               ELSE SetToBag({Head(q)}) (+) BagOfSeq(Tail(q))

PeerHeaders(ackOffsets, fields, remoteOffsets) ==
    {StandardHeaderNew("Data",
                       WrappingAdd(s0, r),
                       WrappingSub(am.sequence_number, 1 + d),
                       f) :
        r \in remoteOffsets,
        d \in {x \in ackOffsets : x <= Len(sent_log)},
        f \in fields}

InitAck(starts) ==
    /\ \E start \in starts :
          /\ am = IF start = 0 THEN AckManagerNew ELSE LockStep(start)
          /\ s0 = start
          /\ received = HeldSequences(am.received_packets)
    /\ lastOp = "new"
    /\ last_in = StandardHeaderNew("Data", 0, 0, {})
    /\ last_out = StandardHeaderNew("Data", 0, 0, {})
    /\ last_notifs = <<>>
    /\ notified = EmptyBag
    /\ sent_log = <<>>
    /\ n_in = 0

Heartbeats == Cardinality({i \in DOMAIN sent_log : sent_log[i].packet_type = "Heartbeat"})

\* AckManager::process_outgoing
ProcessOutgoing(packet_type, payload) ==
    \E out \in {process_outgoing(am, packet_type, payload)} :
       /\ am' = out.am
       /\ last_out' = StandardHeaderRead(out.bytes).header
       /\ sent_log' = Append(sent_log, [sequence |-> last_out'.sequence,
                                        packet_type |-> last_out'.packet_type])
       /\ lastOp' = "process_outgoing"
       /\ UNCHANGED <<last_in, last_notifs, notified, received, n_in, s0>>
       /\ UNCHANGED <<pwVars, connVars, timerVars, peerVars>>

\* AckManager::process_incoming
ProcessIncoming(payload) ==
    \E res \in {process_incoming(am, payload)} :
       /\ am' = res.am
       /\ last_in' = res.header
       /\ last_notifs' = res.notifs
       /\ notified' = notified (+) BagOfSeq(res.notifs)
       /\ received' = received \cup {res.header.sequence}
       /\ n_in' = n_in + 1
       /\ lastOp' = "process_incoming"
       /\ UNCHANGED <<last_out, sent_log, s0>>
       /\ UNCHANGED <<pwVars, connVars, timerVars, peerVars>>

SendData ==
    /\ Len(sent_log) < MaxSends
    /\ ProcessOutgoing("Data", DataBody)

SendHeartbeat ==
    /\ Len(sent_log) < MaxSends
    /\ Heartbeats < MaxHeartbeats
    /\ ProcessOutgoing("Heartbeat", <<>>)

\* the peer's next packet in order, acknowledging one of ours
ReceiveAcks ==
    /\ n_in < MaxIncoming
    /\ \E h \in PeerHeaders(AckOffsets, FieldChoices, {n_in}) :
          ProcessIncoming(StandardHeaderWrite(h) \o DataBody)

\* the network delivers a second copy of the datagram processed last
ReceiveDuplicate ==
    /\ n_in < MaxIncoming
    /\ n_in > 0
    /\ ProcessIncoming(StandardHeaderWrite(last_in) \o DataBody)

\* one of the peer's packets, in any order, acknowledging all of ours
ReceiveSeqs ==
    /\ n_in < MaxIncoming
    /\ \E h \in PeerHeaders({0}, {0..31}, RemoteOffsets) :
          ProcessIncoming(StandardHeaderWrite(h) \o DataBody)

WindowSend ==
    /\ Len(sent_log) < MaxWindowSends
    /\ ProcessOutgoing("Data", DataBody)

WindowReceive ==
    /\ n_in < MaxWindowIncoming
    /\ \E h \in PeerHeaders({0}, {{}, 0..31}, {n_in}) :
          ProcessIncoming(StandardHeaderWrite(h) \o DataBody)

----------------------------------------------------------------------------
(* PacketWriter *)

MTU_TOTAL == 508
MTU_SIZE == MTU_TOTAL - HeaderBytes

\* ManagerType as u8
ManagerTypeEvent == 1
ManagerTypeEntity == 2

\* ServerEntityMessage::write_message_type()
MessageTypeCreate == 0
MessageTypeDelete == 1
MessageTypeUpdate == 2

\* big-endian u16
U16Bytes(v) == << v \div 256, v % 256 >>
\* `len as u8`
AsU8(n) == n % 256

PacketWriterNew ==
    [event_working_bytes |-> <<>>, event_count |-> 0,
     entity_working_bytes |-> <<>>, entity_message_count |-> 0]

has_bytes(w) == w.event_count # 0 \/ w.entity_message_count # 0

bytes_number(w) == Len(w.event_working_bytes) + Len(w.entity_working_bytes)

\* event "header" (gaia id, payload length) and payload
EventTotalBytes(gaia_id, payload) ==
    U16Bytes(gaia_id) \o << AsU8(Len(payload)) >> \o payload

\* the bytes of one entity message
EntityTotalBytes(message) ==
    IF message.variant = "Create"
    THEN << MessageTypeCreate >> \o U16Bytes(message.gaia_id)
         \o U16Bytes(message.local_key) \o << AsU8(Len(message.payload)) >>
         \o message.payload
    ELSE IF message.variant = "Delete"
    THEN << MessageTypeDelete >> \o U16Bytes(message.local_key)
    ELSE << MessageTypeUpdate >> \o U16Bytes(message.local_key)
         \o message.state_mask \o << AsU8(Len(message.payload)) >>
         \o message.payload

\* the size the working bytes would have with the item added, plus the two
\* bytes of the section's header when the section is not open yet
HypotheticalSize(w, total_bytes, section_count) ==
    bytes_number(w) + Len(total_bytes) + (IF section_count = 0 THEN 2 ELSE 0)

\* faulty variant: every item fits
FitsAlways(hypothetical_next_payload_size) == TRUE

Fits(hypothetical_next_payload_size) == hypothetical_next_payload_size < MTU_SIZE

\* self.event_count += 1 on a u8
CountInc(c) == (c + 1) % 256

EventAccepted(w, total_bytes) ==
    [w EXCEPT !.event_count = CountInc(@),
              !.event_working_bytes = @ \o total_bytes]

\* faulty variant: the count is bumped before the size is checked
EventRefusedCounting(w, total_bytes) == [w EXCEPT !.event_count = CountInc(@)]

EventRefused(w, total_bytes) == w

\* (writer after the call, returned bool)
write_event(w, gaia_id, payload) ==
    LET total_bytes == EventTotalBytes(gaia_id, payload)
    IN IF Fits(HypotheticalSize(w, total_bytes, w.event_count))
       THEN [pw |-> EventAccepted(w, total_bytes), ret |-> TRUE]
       ELSE [pw |-> EventRefused(w, total_bytes), ret |-> FALSE]

EntityAccepted(w, total_bytes) ==
    [w EXCEPT !.entity_message_count = CountInc(@),
              !.entity_working_bytes = @ \o total_bytes]

EntityRefused(w, total_bytes) == w

write_entity_message(w, message) ==
    LET total_bytes == EntityTotalBytes(message)
    IN IF Fits(HypotheticalSize(w, total_bytes, w.entity_message_count))
       THEN [pw |-> EntityAccepted(w, total_bytes), ret |-> TRUE]
       ELSE [pw |-> EntityRefused(w, total_bytes), ret |-> FALSE]

\* (writer after the call, body)
\* faulty variant: the Entity section is emitted first
get_bytes_entity_first(w) ==
    [pw |-> PacketWriterNew,
     body |-> (IF w.entity_message_count # 0
               THEN << ManagerTypeEntity, w.entity_message_count >>
                    \o w.entity_working_bytes
               ELSE <<>>)
              \o (IF w.event_count # 0
                  THEN << ManagerTypeEvent, w.event_count >>
                       \o w.event_working_bytes
                  ELSE <<>>)]

get_bytes(w) ==
    LET event_section ==
            IF w.event_count # 0
            THEN << ManagerTypeEvent, w.event_count >> \o w.event_working_bytes
            ELSE <<>>
        entity_section ==
            IF w.entity_message_count # 0
            THEN << ManagerTypeEntity, w.entity_message_count >>
                 \o w.entity_working_bytes
            ELSE <<>>
    IN [pw |-> [event_working_bytes |->
                    IF w.event_count # 0 THEN <<>> ELSE w.event_working_bytes,
                event_count |-> 0,
                entity_working_bytes |->
                    IF w.entity_message_count # 0 THEN <<>>
                    ELSE w.entity_working_bytes,
                entity_message_count |-> 0],
        body |-> event_section \o entity_section]

----------------------------------------------------------------------------
(* The writer's inputs *)

\* n payload bytes as NetEvent::write / the entity's write produce them
PayloadBytes(n) == [i \in 1..n |-> 170]

\* events as the manifest and NetEvent::write present them: (gaia id, payload)
EventInputs ==
    {[gaia_id |-> 1, payload |-> PayloadBytes(1)],
     [gaia_id |-> 2, payload |-> PayloadBytes(246)],
     [gaia_id |-> 3, payload |-> PayloadBytes(256)]}

EntityInputs ==
    {[variant |-> "Create", gaia_id |-> 5, local_key |-> 1,
      payload |-> PayloadBytes(10)],
     [variant |-> "Create", gaia_id |-> 6, local_key |-> 2,
      payload |-> PayloadBytes(300)],
     [variant |-> "Delete", local_key |-> 1],
     [variant |-> "Update", local_key |-> 1, state_mask |-> << 1, 5 >>,
      payload |-> PayloadBytes(20)]}

InitWriter ==
    /\ pw = PacketWriterNew
    /\ pw_prev = PacketWriterNew
    /\ pw_op = "new"
    /\ pw_ret = TRUE
    /\ pw_in = 0
    /\ pw_items = <<>>
    /\ pw_body = <<>>
    /\ n_writes = 0

\* PacketWriter::write_event
WriteEvent(e) ==
    \E res \in {write_event(pw, e.gaia_id, e.payload)} :
       /\ pw' = res.pw
       /\ pw_prev' = pw
       /\ pw_op' = "write_event"
       /\ pw_ret' = res.ret
       /\ pw_in' = Len(e.payload)
       /\ pw_items' = IF res.ret
                      THEN Append(pw_items,
                                  [section |-> "Event",
                                   payload_len |-> Len(e.payload),
                                   length_byte |-> res.pw.event_working_bytes[
                                       Len(pw.event_working_bytes) + 3]])
                      ELSE pw_items
       /\ n_writes' = n_writes + 1
       /\ pw_body' = <<>>
       /\ UNCHANGED <<ackVars, connVars, timerVars, peerVars>>

\* where the length byte sits in an entity message's bytes (0: none)
LengthByteOffset(message) ==
    IF message.variant = "Create" THEN 6
    ELSE IF message.variant = "Delete" THEN 0
    ELSE 4 + Len(message.state_mask)

\* PacketWriter::write_entity_message
WriteEntityMessage(message) ==
    \E res \in {write_entity_message(pw, message)} :
       /\ pw' = res.pw
       /\ pw_prev' = pw
       /\ pw_op' = "write_entity_message"
       /\ pw_ret' = res.ret
       /\ pw_in' = IF message.variant = "Delete" THEN 0 ELSE Len(message.payload)
       /\ pw_items' = IF res.ret /\ message.variant # "Delete"
                      THEN Append(pw_items,
                                  [section |-> "Entity",
                                   payload_len |-> Len(message.payload),
                                   length_byte |-> res.pw.entity_working_bytes[
                                       Len(pw.entity_working_bytes)
                                       + LengthByteOffset(message)]])
                      ELSE IF res.ret
                      THEN Append(pw_items, [section |-> "Entity",
                                             payload_len |-> 0, length_byte |-> 0])
                      ELSE pw_items
       /\ n_writes' = n_writes + 1
       /\ pw_body' = <<>>
       /\ UNCHANGED <<ackVars, connVars, timerVars, peerVars>>

\* PacketWriter::get_bytes
GetBytes ==
    \E res \in {get_bytes(pw)} :
       /\ pw' = res.pw
       /\ pw_prev' = pw
       /\ pw_op' = "get_bytes"
       /\ pw_body' = res.body
       /\ pw_items' = <<>>
       /\ n_writes' = 0
       /\ UNCHANGED <<pw_ret, pw_in>>
       /\ UNCHANGED <<ackVars, connVars, timerVars, peerVars>>

WriterWriteEvent ==
    /\ n_writes < MaxWrites
    /\ \E e \in EventInputs : WriteEvent(e)

WriterWriteEntity ==
    /\ n_writes < MaxWrites
    /\ \E message \in EntityInputs : WriteEntityMessage(message)

WriterFlush == GetBytes

\* the smallest items: an event without payload bytes, a Delete message
SmallestEvent == [gaia_id |-> 1, payload |-> PayloadBytes(0)]
SmallestEntityMessage == [variant |-> "Delete", local_key |-> 1]

\* a packet is filled with events first and entity messages after them
CountWriteEvent ==
    /\ n_writes < MaxCountWrites
    /\ pw.entity_message_count = 0
    /\ WriteEvent(SmallestEvent)

CountWriteEntity ==
    /\ n_writes < MaxCountWrites
    /\ WriteEntityMessage(SmallestEntityMessage)

CountFlush ==
    /\ has_bytes(pw)
    /\ GetBytes

----------------------------------------------------------------------------
(* EventManager: the outgoing queue, the events attached to each packet index,
   and the inbox *)

NoEvent == [gaia_id |-> None, payload |-> <<>>]

EventManagerNew ==
    [queued_outgoing_events |-> <<>>,
     sent_events |-> EmptyMap,
     queued_incoming_events |-> <<>>]

has_outgoing_events(e) == e.queued_outgoing_events # <<>>

queue_event(e, event) ==
    [e EXCEPT !.queued_outgoing_events = Append(@, event)]

\* (manager after the call, popped event or NoEvent): the head of the queue,
\* remembered under the packet index
pop_outgoing_event(e, packet_index) ==
    IF e.queued_outgoing_events = <<>> THEN [em |-> e, event |-> NoEvent]
    ELSE LET event == Head(e.queued_outgoing_events)
             list == IF packet_index \in DOMAIN e.sent_events
                     THEN e.sent_events[packet_index] ELSE <<>>
         IN [em |-> [e EXCEPT
                       !.queued_outgoing_events = Tail(@),
                       !.sent_events = MapInsert(@, packet_index,
                                                 Append(list, event))],
             event |-> event]

\* the event goes back to the head of the queue and is forgotten for the index
unpop_outgoing_event(e, packet_index, event) ==
    LET list == IF packet_index \in DOMAIN e.sent_events
                THEN e.sent_events[packet_index] ELSE <<>>
        rest == SelectSeq(list, LAMBDA x : x # event)
    IN [e EXCEPT
          !.queued_outgoing_events = << event >> \o @,
          !.sent_events = IF rest = <<>> THEN MapRemove(@, packet_index)
                          ELSE MapInsert(@, packet_index, rest)]

em_notify_packet_delivered(e, packet_index) ==
    [e EXCEPT !.sent_events = MapRemove(@, packet_index)]

\* the events attached to the index are queued again
em_notify_packet_dropped(e, packet_index) ==
    IF packet_index \in DOMAIN e.sent_events
    THEN [e EXCEPT
            !.queued_outgoing_events = @ \o e.sent_events[packet_index],
            !.sent_events = MapRemove(@, packet_index)]
    ELSE e

\* the gaia ids the manifest knows, with the payload length of each type
KnownGaiaIds == {1, 2}

\* PacketReader over `data` at position pos (1-based index of the next byte)
has_more(data, pos) == pos <= Len(data)

\* Reads `count` event items from pos: (ok, events read, position after)
RECURSIVE ReadEvents(_, _, _, _)
ReadEvents(data, pos, count, events) ==
    IF count = 0 THEN [ok |-> TRUE, events |-> events, pos |-> pos]
    ELSE IF pos + 2 > Len(data)
    THEN [ok |-> FALSE, events |-> events, pos |-> pos]
    ELSE LET gaia_id == data[pos] * 256 + data[pos + 1]
             length == data[pos + 2]
         IN IF gaia_id \notin KnownGaiaIds \/ pos + 2 + length > Len(data)
            THEN [ok |-> FALSE, events |-> events, pos |-> pos]
            ELSE ReadEvents(data, pos + 3 + length, count - 1,
                            Append(events,
                                   [gaia_id |-> gaia_id,
                                    payload |-> SubSeq(data, pos + 3,
                                                       pos + 2 + length)]))

\* Connection::process_event_data: the Event sub-frame's count and items, read
\* from pos; decoded events go to the inbox, a malformed frame adds nothing
process_event_data(e, data, pos) ==
    IF ~has_more(data, pos) THEN [em |-> e, ok |-> FALSE, pos |-> pos]
    ELSE LET rd == ReadEvents(data, pos + 1, data[pos], <<>>)
         IN IF rd.ok
            THEN [em |-> [e EXCEPT !.queued_incoming_events = @ \o rd.events],
                  ok |-> TRUE, pos |-> rd.pos]
            ELSE [em |-> e, ok |-> FALSE, pos |-> rd.pos]

----------------------------------------------------------------------------
(* ServerConnection *)

\* faulty variant: the index of the packet sent last
get_next_packet_index_behind(m) == WrappingSub(local_sequence_num(m), 1)

\* faulty variant: the index of the packet after the next one
get_next_packet_index_skipping(m) == WrappingAdd(local_sequence_num(m), 1)

\* ServerConnection::get_next_packet_index
get_next_packet_index(m) == local_sequence_num(m)

\* the `while let Some(popped_event) = pop_outgoing_event(next_packet_index)`
\* loop: (event manager, writer) when it ends
RECURSIVE PopLoop(_, _, _)
PopLoop(e, writer, next_packet_index) ==
    LET popped == pop_outgoing_event(e, next_packet_index)
    IN IF popped.event = NoEvent THEN [em |-> e, writer |-> writer]
       ELSE LET written == write_event(writer, popped.event.gaia_id,
                                       popped.event.payload)
            IN IF ~written.ret
               THEN [em |-> unpop_outgoing_event(popped.em, next_packet_index,
                                                 popped.event),
                     writer |-> writer]
               ELSE PopLoop(popped.em, written.pw, next_packet_index)

\* (ack manager, event manager, Some/None, packet bytes, index used to pop)
get_outgoing_packet(m, e) ==
    IF has_outgoing_events(e)
    THEN LET next_packet_index == get_next_packet_index(m)
             loop == PopLoop(e, PacketWriterNew, next_packet_index)
         IN IF has_bytes(loop.writer)
            THEN LET out == process_outgoing(m, "Data",
                                             get_bytes(loop.writer).body)
                 IN [am |-> out.am, em |-> loop.em, some |-> TRUE,
                     bytes |-> out.bytes, index |-> next_packet_index]
            ELSE [am |-> m, em |-> loop.em, some |-> FALSE, bytes |-> <<>>,
                  index |-> next_packet_index]
    ELSE [am |-> m, em |-> e, some |-> FALSE, bytes |-> <<>>, index |-> None]

\* the delivered / dropped callbacks of one process_incoming, in order
RECURSIVE ApplyNotifications(_, _)
ApplyNotifications(e, notifs) ==
    IF notifs = <<>> THEN e
    ELSE ApplyNotifications(
            IF Head(notifs).kind = "delivered"
            THEN em_notify_packet_delivered(e, Head(notifs).seq)
            ELSE em_notify_packet_dropped(e, Head(notifs).seq),
            Tail(notifs))

\* Timer::reset on the timeout timer: it remembers the instant, here the
\* arrival (1, 2, ...) of the datagram being processed; 0 is construction
mark_heard(arrival) == arrival

\* faulty variant: the header is processed and the timer is left alone
process_incoming_header_unheard(m, e, t, payload) ==
    LET res == process_incoming(m, payload)
    IN [am |-> res.am,
        em |-> ApplyNotifications(e, res.notifs),
        heard |-> 0,
        notifs |-> res.notifs,
        header |-> res.header,
        stripped |-> res.stripped]

\* (ack manager, event manager, timeout timer's last reset, notifications,
\*  header read, stripped payload)
process_incoming_header(m, e, t, payload) ==
    LET res == process_incoming(m, payload)
    IN [am |-> res.am,
        em |-> ApplyNotifications(e, res.notifs),
        heard |-> mark_heard(t),
        notifs |-> res.notifs,
        header |-> res.header,
        stripped |-> res.stripped]

\* (event manager, whether entity_manager.process_data was called, and the
\*  reader position it was called at)
process_incoming_data(e, data) ==
    IF Len(data) = 0 THEN [em |-> e, entity_called |-> FALSE, entity_pos |-> 1]
    ELSE LET start_manager_type == data[1]
             after == IF start_manager_type = ManagerTypeEvent
                      THEN process_event_data(e, data, 2)
                      ELSE [em |-> e, ok |-> TRUE, pos |-> 2]
         IN [em |-> after.em,
             entity_called |-> has_more(data, after.pos),
             entity_pos |-> after.pos]

----------------------------------------------------------------------------
(* The connection's inputs *)

\* the events the application queues: (gaia id, payload length); the first
\* payload byte of the k-th event queued is k, which tells the events apart
QueueInputs ==
    {[gaia_id |-> 1, payload_len |-> 1],
     [gaia_id |-> 2, payload_len |-> 246]}

\* a body as the peer's writer frames it: one Event section with one event
WellFormedBody == << 1, 1, 0, 1, 1, 7 >>

\* malformed bodies: a section announcing two items and holding one; a length
\* byte beyond the remaining bytes; an unknown manager type; an unknown gaia id
MalformedBodies ==
    {<< 1, 2, 0, 1, 1, 7 >>, << 1, 1, 0, 1, 5, 7 >>,
     << 9, 1, 0, 1, 1, 7 >>, << 1, 1, 0, 99, 1, 7 >>}

\* whether a body is one Event section (known ids, lengths within the body)
\* optionally followed by an Entity section
WellFormed(body) ==
    /\ Len(body) >= 2
    /\ body[1] \in {ManagerTypeEvent, ManagerTypeEntity}
    /\ body[1] = ManagerTypeEvent =>
          LET rd == ReadEvents(body, 3, body[2], <<>>)
          IN rd.ok /\ (has_more(body, rd.pos) => body[rd.pos] = ManagerTypeEntity)

InitConn ==
    /\ em = EventManagerNew
    /\ timeout_last = 0
    /\ out_packet = [some |-> FALSE, index |-> None]
    /\ packet_events = EmptyMap
    /\ last_body = <<>>
    /\ n_queued = 0

\* ServerConnection::queue_event
QueueEvent ==
    /\ n_queued < MaxQueued
    /\ \E q \in QueueInputs :
          em' = queue_event(em, [gaia_id |-> q.gaia_id,
                                 payload |-> << n_queued >>
                                    \o PayloadBytes(q.payload_len - 1)])
    /\ n_queued' = n_queued + 1
    /\ lastOp' = "queue_event"
    /\ UNCHANGED <<am, last_in, last_out, last_notifs, notified, sent_log,
                   received, n_in, s0, timeout_last, out_packet,
                   packet_events, last_body>>
    /\ UNCHANGED <<pwVars, timerVars, peerVars>>

\* an event whose item (gaia id, length byte, payload) and section header fill
\* MTU_SIZE; nothing on the way from queue_event to write_event bounds a payload
LongQueueInputs ==
    {[gaia_id |-> 2, payload_len |-> MTU_SIZE - 2 - 3]}

\* ServerConnection::queue_event with such an event
QueueLongEvent ==
    /\ n_queued < MaxQueued
    /\ \E q \in LongQueueInputs :
          em' = queue_event(em, [gaia_id |-> q.gaia_id,
                                 payload |-> << n_queued >>
                                    \o PayloadBytes(q.payload_len - 1)])
    /\ n_queued' = n_queued + 1
    /\ lastOp' = "queue_event"
    /\ UNCHANGED <<am, last_in, last_out, last_notifs, notified, sent_log,
                   received, n_in, s0, timeout_last, out_packet,
                   packet_events, last_body>>
    /\ UNCHANGED <<pwVars, timerVars, peerVars>>

\* the events a datagram carries, each named by its first payload byte
EventsCarried(bytes) ==
    LET body == StandardHeaderRead(bytes).stripped
        rd == ReadEvents(body, 3, body[2], <<>>)
    IN [i \in DOMAIN rd.events |-> rd.events[i].payload[1]]

\* ServerConnection::get_outgoing_packet
GetOutgoingPacket ==
    /\ Len(sent_log) < MaxPackets
    /\ \E res \in {get_outgoing_packet(am, em)} :
          /\ am' = res.am
          /\ em' = res.em
          /\ out_packet' = [some |-> res.some, index |-> res.index]
          /\ IF res.some
             THEN \E h \in {StandardHeaderRead(res.bytes).header} :
                     /\ last_out' = h
                     /\ sent_log' = Append(sent_log,
                                           [sequence |-> h.sequence,
                                            packet_type |-> h.packet_type])
                     /\ packet_events' =
                           MapInsert(packet_events, h.sequence,
                                     EventsCarried(res.bytes))
             ELSE UNCHANGED <<last_out, sent_log, packet_events>>
    /\ lastOp' = "get_outgoing_packet"
    /\ UNCHANGED <<last_in, last_notifs, notified, received, n_in, s0,
                   timeout_last, n_queued, last_body>>
    /\ UNCHANGED <<pwVars, timerVars, peerVars>>

\* the receive step: ServerConnection::process_incoming_header, then
\* ServerConnection::process_incoming_data on the stripped payload
ReceiveDatagram(payload) ==
    \E hd \in {process_incoming_header(am, em, n_in + 1, payload)} :
       \E dt \in {process_incoming_data(hd.em, hd.stripped)} :
          /\ am' = hd.am
          /\ em' = dt.em
          /\ timeout_last' = hd.heard
          /\ last_in' = hd.header
          /\ last_notifs' = hd.notifs
          /\ notified' = notified (+) BagOfSeq(hd.notifs)
          /\ received' = received \cup {hd.header.sequence}
          /\ last_body' = hd.stripped
          /\ n_in' = n_in + 1
          /\ lastOp' = "receive"
          /\ UNCHANGED <<last_out, sent_log, s0, out_packet, packet_events,
                         n_queued>>
          /\ UNCHANGED <<pwVars, timerVars, peerVars>>

\* a datagram from the peer: its next header in order, acknowledging our
\* latest packet, with a well-formed body
ReceiveWellFormed ==
    /\ n_in < MaxDatagrams
    /\ \E h \in PeerHeaders({0}, {{}, 0..31}, {n_in}) :
          ReceiveDatagram(StandardHeaderWrite(h) \o WellFormedBody)

\* the same with a body that turns out malformed
ReceiveMalformed ==
    /\ n_in < MaxDatagrams
    /\ \E h \in PeerHeaders({0}, {{}, 0..31}, {n_in}) :
          \E body \in MalformedBodies :
             ReceiveDatagram(StandardHeaderWrite(h) \o body)

----------------------------------------------------------------------------
(* Heartbeat and timeout timers, and the owner's send and receive steps *)

\* Timer::ringing: the duration has elapsed since the last reset
TimerRinging(last, duration, now) == now - last >= duration

\* Timer::reset
TimerReset(now) == now

\* faulty variant: the heartbeat timer keeps its last reset
mark_sent_stale(last, now) == last

\* ServerConnection::mark_sent: the heartbeat timer after the call
mark_sent(last, now) == TimerReset(now)

\* ServerConnection::should_send_heartbeat
should_send_heartbeat(last, now) == TimerRinging(last, heartbeat_interval, now)

\* ServerConnection::should_drop
should_drop(last, now) ==
    TimerRinging(last, disconnection_timeout_duration, now)

\* ServerConnection::process_outgoing_header
process_outgoing_header(m, packet_type, payload) ==
    process_outgoing(m, packet_type, payload)

InitTimers ==
    /\ clock = 0
    /\ heartbeat_last = 0
    /\ transmit_at = 0
    /\ heard_at = 0

\* time passes
TimerTick ==
    /\ clock < MaxClock
    /\ clock' = clock + 1
    /\ lastOp' = "tick"
    /\ UNCHANGED <<am, last_in, last_out, last_notifs, notified, sent_log,
                   received, n_in, s0, heartbeat_last, transmit_at, heard_at>>
    /\ UNCHANGED <<pwVars, connVars, peerVars>>

\* the application queues an event
TimerQueue ==
    /\ n_queued < MaxTimerQueued
    /\ em' = queue_event(em, [gaia_id |-> 1, payload |-> << n_queued >>])
    /\ n_queued' = n_queued + 1
    /\ lastOp' = "queue_event"
    /\ UNCHANGED <<am, last_in, last_out, last_notifs, notified, sent_log,
                   received, n_in, s0, timeout_last, out_packet,
                   packet_events, last_body>>
    /\ UNCHANGED <<pwVars, timerVars, peerVars>>

\* the packet the composite send step transmits, if any: the Data packet of
\* get_outgoing_packet, otherwise a header-only Heartbeat when one is due
SendStep(m, e, hb_last, now) ==
    LET data == get_outgoing_packet(m, e)
    IN IF data.some
       THEN [am |-> data.am, em |-> data.em, some |-> TRUE,
             bytes |-> data.bytes, index |-> data.index]
       ELSE IF should_send_heartbeat(hb_last, now)
       THEN LET hb == process_outgoing_header(m, "Heartbeat", <<>>)
            IN [am |-> hb.am, em |-> data.em, some |-> TRUE,
                bytes |-> hb.bytes, index |-> None]
       ELSE [am |-> m, em |-> data.em, some |-> FALSE, bytes |-> <<>>,
             index |-> None]

\* the owner's composite send step; on transmit it calls mark_sent()
OwnerSend ==
    /\ Len(sent_log) < MaxTimerSends
    /\ \E res \in {SendStep(am, em, heartbeat_last, clock)} :
          /\ am' = res.am
          /\ em' = res.em
          /\ out_packet' = [some |-> res.some, index |-> res.index]
          /\ IF res.some
             THEN \E h \in {StandardHeaderRead(res.bytes).header} :
                     /\ last_out' = h
                     /\ sent_log' = Append(sent_log,
                                           [sequence |-> h.sequence,
                                            packet_type |-> h.packet_type])
                     /\ packet_events' =
                           IF h.packet_type = "Data"
                           THEN MapInsert(packet_events, h.sequence,
                                          EventsCarried(res.bytes))
                           ELSE packet_events
                     /\ transmit_at' = clock
                     /\ heartbeat_last' = mark_sent(heartbeat_last, clock)
                     /\ lastOp' = "transmit"
             ELSE /\ UNCHANGED <<last_out, sent_log, packet_events,
                                 transmit_at, heartbeat_last>>
                  /\ lastOp' = "idle"
    /\ UNCHANGED <<last_in, last_notifs, notified, received, n_in, s0,
                   timeout_last, n_queued, last_body, clock, heard_at>>
    /\ UNCHANGED <<pwVars, peerVars>>

\* the owner's receive step for a valid datagram of the peer
OwnerReceive ==
    /\ n_in < MaxTimerDatagrams
    /\ \E h \in PeerHeaders({0}, {0..31}, {n_in}) :
       \E hd \in {process_incoming_header(am, em, clock,
                     StandardHeaderWrite(h) \o WellFormedBody)} :
       \E dt \in {process_incoming_data(hd.em, hd.stripped)} :
          /\ am' = hd.am
          /\ em' = dt.em
          /\ timeout_last' = hd.heard
          /\ heard_at' = clock
          /\ last_in' = hd.header
          /\ last_notifs' = hd.notifs
          /\ notified' = notified (+) BagOfSeq(hd.notifs)
          /\ received' = received \cup {hd.header.sequence}
          /\ last_body' = hd.stripped
          /\ n_in' = n_in + 1
          /\ lastOp' = "receive"
    /\ UNCHANGED <<last_out, sent_log, s0, out_packet, packet_events,
                   n_queued, clock, heartbeat_last, transmit_at>>
    /\ UNCHANGED <<pwVars, peerVars>>

----------------------------------------------------------------------------
(* Two peers A and B, each with its AckManager, over a lossy channel *)

PeerNames == {"A", "B"}
Other(x) == IF x = "A" THEN "B" ELSE "A"

\* what the peers send: the packet type and the payload given to
\* process_outgoing
PeerPackets ==
    {[packet_type |-> "Data", payload |-> DataBody],
     [packet_type |-> "Heartbeat", payload |-> <<>>]}

NoRoundTrip ==
    [from |-> "A", payload |-> <<>>, written |-> StandardHeaderNew("Data", 0, 0, {}),
     fresh |-> FALSE, stripped |-> <<>>, read |-> StandardHeaderNew("Data", 0, 0, {}),
     notifs |-> <<>>]

InitPeers ==
    /\ peers = [x \in PeerNames |-> AckManagerNew]
    /\ net = {}
    /\ processed = [x \in PeerNames |-> {}]
    /\ peer_notified = [x \in PeerNames |-> {}]
    /\ last_rt = NoRoundTrip
    /\ n_deliveries = 0

\* the packets peer x has sent
SentBy(x) == {d \in net : d.from = x}

\* peer x sends a packet: AckManager::process_outgoing
PeerSend(x) ==
    /\ Cardinality(net) < MaxPeerSends
    /\ \E pk \in PeerPackets :
       \E out \in {process_outgoing(peers[x], pk.packet_type, pk.payload)} :
          /\ peers' = [peers EXCEPT ![x] = out.am]
          /\ net' = net \cup {[from |-> x, bytes |-> out.bytes,
                               payload |-> pk.payload, written |-> out.header,
                               fresh |-> processed[x] = {}]}
    /\ UNCHANGED <<processed, peer_notified, last_rt, n_deliveries>>
    /\ UNCHANGED <<ackVars, pwVars, connVars, timerVars>>

\* the channel hands one of the datagrams sent by the other peer to x:
\* AckManager::process_incoming
PeerDeliver(x) ==
    /\ n_deliveries < MaxPeerDeliveries
    /\ \E d \in SentBy(Other(x)) :
       \E res \in {process_incoming(peers[x], d.bytes)} :
          /\ peers' = [peers EXCEPT ![x] = res.am]
          /\ processed' = [processed EXCEPT ![x] = @ \cup {res.header.sequence}]
          /\ peer_notified' = [peer_notified EXCEPT ![x] = @ \cup Range(res.notifs)]
          /\ last_rt' = [from |-> d.from, payload |-> d.payload,
                         written |-> d.written, fresh |-> d.fresh,
                         stripped |-> res.stripped, read |-> res.header,
                         notifs |-> res.notifs]
    /\ n_deliveries' = n_deliveries + 1
    /\ UNCHANGED net
    /\ UNCHANGED <<ackVars, pwVars, connVars, timerVars>>

PeerSends == \E x \in PeerNames : PeerSend(x)
PeerReceives == \E x \in PeerNames : PeerDeliver(x)

----------------------------------------------------------------------------
(* Specifications *)

vars == <<ackVars, pwVars, connVars, timerVars, peerVars>>

Init == InitAck(StartSeqs) /\ InitWriter /\ InitConn /\ InitTimers /\ InitPeers

\* the same, the local sequence starting at 0
InitZero == InitAck({0}) /\ InitWriter /\ InitConn /\ InitTimers /\ InitPeers

\* acknowledgements of our packets, the peer's packets arriving in order
NextAck == SendData \/ SendHeartbeat \/ ReceiveAcks \/ ReceiveDuplicate
SpecAck == Init /\ [][NextAck]_vars

\* the peer's packets arriving out of order, duplicated, or with gaps
NextRecv == SendData \/ SendHeartbeat \/ ReceiveSeqs
SpecRecv == Init /\ [][NextRecv]_vars

\* a long run of sends, so that a packet can leave the 32-packet window
NextWindow == WindowSend \/ WindowReceive
SpecWindow == InitZero /\ [][NextWindow]_vars

\* the packet writer alone
NextWriter == WriterWriteEvent \/ WriterWriteEntity \/ WriterFlush
SpecWriter == InitZero /\ [][NextWriter]_vars

\* the sending side of the connection, events of any length queued
NextProgress ==
    QueueEvent \/ QueueLongEvent \/ GetOutgoingPacket \/ ReceiveWellFormed
SpecProgress == InitZero /\ [][NextProgress]_vars

\* the packet writer filled with as many items as it takes
NextCount == CountWriteEvent \/ CountWriteEntity \/ CountFlush
SpecCount == InitZero /\ [][NextCount]_vars

\* the connection: events queued, packets built, datagrams received
NextConn ==
    QueueEvent \/ GetOutgoingPacket \/ ReceiveWellFormed \/ ReceiveMalformed
SpecConn == InitZero /\ [][NextConn]_vars

\* the timers, polled by an owner that sends and receives
NextTimer == TimerTick \/ TimerQueue \/ OwnerSend \/ OwnerReceive
SpecTimer == InitZero /\ [][NextTimer]_vars

\* two peers exchanging packets over a channel that loses, duplicates and
\* reorders
NextPeers == PeerSends \/ PeerReceives
SpecPeers == InitZero /\ [][NextPeers]_vars

----------------------------------------------------------------------------
(* Properties *)

SeqGE(a, b) == a = b \/ sequence_greater_than(a, b)

DataSent == {sent_log[i].sequence : i \in {j \in DOMAIN sent_log :
                                              sent_log[j].packet_type = "Data"}}

Notifications(s) ==
    CopiesIn(Delivered(s), notified) + CopiesIn(Dropped(s), notified)


\* C1: once an incoming packet whose ack_seq is at or beyond s + 32 has been
\* processed, the Data packet sent with sequence s has had exactly one of
\* delivered(s) / dropped(s), and its sent_packets entry is gone.
C1_ResolvedWhenWindowPassed ==
    lastOp = "process_incoming" =>
        \A s \in DataSent :
            SeqGE(last_in.ack_seq, WrappingAdd(s, REDUNDANT_PACKET_ACKS_SIZE)) =>
                /\ Notifications(s) = 1
                /\ s \notin DOMAIN am.sent_packets

\* C2: the delivered and dropped notifications emitted for one sent packet
\* number at most one in total, whatever headers arrive, duplicated or out of
\* order.
C2_AtMostOnce ==
    /\ \A s \in DataSent : Notifications(s) <= 1
    /\ \A n \in BagToSet(notified) : n.seq \in DataSent

\* a second header acknowledging s was processed after delivered(s), and
\* emitted nothing for s
C2_Witness ==
    /\ lastOp = "process_incoming"
    /\ last_in.ack_seq \in DataSent
    /\ CopiesIn(Delivered(last_in.ack_seq), notified) = 1
    /\ Delivered(last_in.ack_seq) \notin Range(last_notifs)

\* the scenario of C3: Data 0..4 sent (counted from the first sequence), none
\* notified yet, and the header just processed has ack_seq = 4 and the bits
\* of 3, 2 and 0 set, the bit of 1 clear
C3_Scenario ==
    /\ lastOp = "process_incoming"
    /\ Len(sent_log) = 5
    /\ \A i \in 1..5 : sent_log[i].packet_type = "Data"
    /\ last_in.ack_seq = WrappingAdd(s0, 4)
    /\ last_in.ack_field = {0, 1, 3}
    /\ notified = BagOfSeq(last_notifs)

\* sequences that the header just processed covers with a clear bit
ClearInWindow ==
    {s \in DataSent :
        \E i \in 1..REDUNDANT_PACKET_ACKS_SIZE :
            /\ s = WrappingSub(last_in.ack_seq, i)
            /\ (i - 1) \notin last_in.ack_field}

\* C3 as stated: in the scenario the call emits delivered for 0, 2, 3, 4 and
\* nothing for 1, and no call emits dropped for a packet whose ack bit is 0
\* while it is inside the window.
C3_Original ==
    /\ C3_Scenario =>
          Range(last_notifs) = {Delivered(WrappingAdd(s0, k)) : k \in {0, 2, 3, 4}}
    /\ lastOp = "process_incoming" =>
          \A s \in ClearInWindow : Dropped(s) \notin Range(last_notifs)

\* C3 (amended): in the scenario the call emits delivered for 4, 3, 2, then
\* dropped for 1, then delivered for 0; after any call, every Data packet
\* inside the window of the processed header is resolved, a packet with a
\* clear bit that the call notified was notified as dropped, and nothing of
\* it stays in sent_packets.
C3_DropInsideWindow ==
    /\ C3_Scenario =>
          last_notifs = << Delivered(WrappingAdd(s0, 4)), Delivered(WrappingAdd(s0, 3)),
                           Delivered(WrappingAdd(s0, 2)), Dropped(WrappingAdd(s0, 1)),
                           Delivered(WrappingAdd(s0, 0)) >>
    /\ lastOp = "process_incoming" =>
          \A s \in ClearInWindow :
              /\ Notifications(s) = 1
              /\ s \notin DOMAIN am.sent_packets
              /\ Delivered(s) \notin Range(last_notifs)

C3_Witness == C3_Scenario /\ Dropped(WrappingAdd(s0, 1)) \in Range(last_notifs)

MaxWrap(S) == CHOOSE m \in S : \A x \in S : SeqGE(m, x)

\* C4: after some datagrams were processed, the header of the next
\* process_outgoing has ack_seq = the wrap-around maximum of the received
\* sequences, and bit i of ack_field is set exactly when ack_seq - (i+1) was
\* received and is still held in the buffer.
C4_AckHeader ==
    (lastOp = "process_outgoing" /\ n_in > 0) =>
        /\ last_out.ack_seq = MaxWrap(received)
        /\ \A i \in 0..31 :
              i \in last_out.ack_field <=>
                 /\ WrappingSub(last_out.ack_seq, i + 1) \in received
                 /\ WrappingSub(last_out.ack_seq, i + 1)
                        \in HeldSequences(am.received_packets)

\* a header sent after a gap: some bit set, and something received that the
\* field no longer covers
C4_Witness ==
    /\ lastOp = "process_outgoing"
    /\ n_in >= 2
    /\ last_out.ack_field # {}
    /\ \E r \in received :
          sequence_less_than(r, WrappingSub(last_out.ack_seq,
                                            REDUNDANT_PACKET_ACKS_SIZE))

\* C8: the n-th header carries s0 + n - 1 (mod 2^16), the manager's next
\* sequence is s0 + n whatever was received in between, and every
\* sent_packets entry is keyed by the sequence stamped in its header.
C8_Sequences ==
    /\ \A i \in DOMAIN sent_log : sent_log[i].sequence = (s0 + i - 1) % SeqMod
    /\ am.sequence_number = (s0 + Len(sent_log)) % SeqMod
    /\ s0 = 0 \/ am # AckManagerNew
    /\ \A k \in DOMAIN am.sent_packets :
          /\ am.sent_packets[k].id = k
          /\ \E i \in DOMAIN sent_log :
                /\ sent_log[i].sequence = k
                /\ sent_log[i].packet_type = am.sent_packets[k].packet_type

\* four sends across the wrap, with a process_incoming in between
C8_Witness ==
    /\ s0 = 65534
    /\ Len(sent_log) = 4
    /\ sent_log[4].sequence = 1
    /\ n_in >= 1
    /\ 0 \in DOMAIN am.sent_packets

----------------------------------------------------------------------------

BodyLength(w) == Len(get_bytes(w).body)

\* C5: whenever has_bytes() is true, the body get_bytes() returns is shorter
\* than MTU_SIZE, so header plus body stays below 508 bytes.
C5_BodyBelowMtu ==
    /\ has_bytes(pw) => BodyLength(pw) < MTU_SIZE
    /\ pw_op = "get_bytes" => HeaderBytes + Len(pw_body) < MTU_TOTAL

ItemsOf(section) == SelectSeq(pw_items, LAMBDA it : it.section = section)

\* C6: a write that returns false leaves both counts and both working
\* buffers as they were, so the writer still holds exactly the accepted items.
C6_RefusedWriteUnchanged ==
    /\ (pw_op \in {"write_event", "write_entity_message"} /\ ~pw_ret) =>
          /\ pw = pw_prev
          /\ bytes_number(pw) = bytes_number(pw_prev)
          /\ has_bytes(pw) = has_bytes(pw_prev)
    /\ pw.event_count = Len(ItemsOf("Event"))
    /\ pw.entity_message_count = Len(ItemsOf("Entity"))

\* a write was refused by a writer that already holds items
C6_Witness ==
    /\ pw_op \in {"write_event", "write_entity_message"}
    /\ ~pw_ret
    /\ has_bytes(pw)
    /\ Len(pw_items) >= 2

\* C7: a write of an item whose payload is longer than 255 bytes returns
\* false and changes nothing, and every item in the writer carries a length
\* byte equal to its payload's length.
C7_OversizedRefused ==
    /\ (pw_op \in {"write_event", "write_entity_message"} /\ pw_in > 255) =>
          (~pw_ret /\ pw = pw_prev)
    /\ \A i \in DOMAIN pw_items : pw_items[i].length_byte = pw_items[i].payload_len

----------------------------------------------------------------------------
(* The connection: events, packets and datagrams *)

\* the events carried by the i-th packet sent
CarriedBy(i) == Range(packet_events[sent_log[i].sequence])

\* a dropped(s) of this receive step puts the events of packet s back in the
\* queue and forgets them for s
RequeuedOnDrop ==
    lastOp' = "receive" =>
       \A i \in DOMAIN sent_log :
          Dropped(sent_log[i].sequence) \in Range(last_notifs') =>
             /\ CarriedBy(i) \subseteq
                   {em'.queued_outgoing_events[k].payload[1] :
                       k \in DOMAIN em'.queued_outgoing_events}
             /\ sent_log[i].sequence \notin DOMAIN em'.sent_events

\* get_outgoing_packet with events waiting returns a packet carrying the
\* event pop_outgoing_event returns first
HeadCarried ==
    (lastOp' = "get_outgoing_packet" /\ has_outgoing_events(em)) =>
       /\ pop_outgoing_event(em, get_next_packet_index(am)).event
             = Head(em.queued_outgoing_events)
       /\ out_packet'.some
       /\ Head(em.queued_outgoing_events).payload[1]
             \in Range(packet_events'[last_out'.sequence])

\* an event carried by two packets: the earlier one was reported dropped, not
\* delivered, before the later one was built
ResentOnlyAfterDrop ==
    \A i, j \in DOMAIN sent_log' :
       (i < j /\ CarriedBy(i)' \cap CarriedBy(j)' # {}) =>
          /\ Delivered(sent_log'[i].sequence) \notin BagToSet(notified')
          /\ Dropped(sent_log'[i].sequence) \in BagToSet(notified')

C10_MalformedLeavesStateUntouched ==
    [][(lastOp' = "receive" /\ ~WellFormed(last_body')) =>
          /\ am' = am
          /\ notified' = notified
          /\ em'.queued_incoming_events = em.queued_incoming_events
          /\ timeout_last' = timeout_last]_vars

----------------------------------------------------------------------------
(* The timers *)

\* C11: should_send_heartbeat() is true exactly when heartbeat_interval has
\* elapsed since the last packet transmitted, Data or Heartbeat (or since
\* creation): every transmit is followed by mark_sent().
C11_HeartbeatTimer ==
    should_send_heartbeat(heartbeat_last, clock)
        <=> (clock - transmit_at >= heartbeat_interval)

\* a Data packet went out before the interval had elapsed since creation, and
\* one tick short of the interval after it, past the interval since creation,
\* the poll is false
C11_Witness ==
    /\ \E i \in DOMAIN sent_log : sent_log[i].packet_type = "Data"
    /\ transmit_at > 0
    /\ transmit_at < heartbeat_interval
    /\ clock >= heartbeat_interval
    /\ clock - transmit_at = heartbeat_interval - 1
    /\ ~should_send_heartbeat(heartbeat_last, clock)

\* C12: should_drop() is true exactly when disconnection_timeout_duration has
\* elapsed since the last valid incoming header was processed (or since
\* creation): process_incoming_header calls mark_heard().
C12_TimeoutTimer ==
    should_drop(timeout_last, clock)
        <=> (clock - heard_at >= disconnection_timeout_duration)

\* past the timeout since creation, a datagram heard in between keeps
\* should_drop() false
C12_Witness ==
    /\ heard_at > 0
    /\ clock >= disconnection_timeout_duration
    /\ ~should_drop(timeout_last, clock)

----------------------------------------------------------------------------
(* Two peers *)

\* C13: what process_incoming strips from the bytes process_outgoing
\* returned is the payload given, and the header it reads (packet type,
\* sequence, ack_seq, ack_field) is the header written, for every packet type
\* and whatever the ack state of the receiving peer.
C13_HeaderRoundTrip ==
    n_deliveries > 0 =>
       /\ last_rt.stripped = last_rt.payload
       /\ last_rt.read = last_rt.written

\* a Data packet with a non-empty payload and a non-trivial ack field went
\* through, to a peer that had packets in flight
C13_Witness ==
    /\ n_deliveries > 0
    /\ last_rt.payload # <<>>
    /\ last_rt.written.ack_field # {}
    /\ \E d \in SentBy(Other(last_rt.from)) : d.written.packet_type = "Heartbeat"

\* C18: over a channel that loses, duplicates and reorders, a peer is told
\* delivered(s) only for a packet s the other peer has processed; and a header
\* sent by a peer that had not processed anything carries ack_seq = 0xFFFF and
\* ack_field = 0 and causes no notification at all.
C18_AckSound ==
    /\ \A x \in PeerNames : \A n \in peer_notified[x] :
          n.kind = "delivered" => n.seq \in processed[Other(x)]
    /\ (n_deliveries > 0 /\ last_rt.fresh) =>
          /\ last_rt.read.ack_seq = SeqMod - 1
          /\ last_rt.read.ack_field = {}
          /\ last_rt.notifs = <<>>

\* a packet was reported delivered, and a peer with packets in flight gets a
\* header the other peer sent before it had processed anything
C18_Witness ==
    /\ n_deliveries > 0
    /\ last_rt.fresh
    /\ \E x \in PeerNames : \E n \in peer_notified[x] : n.kind = "delivered"
    /\ peers[Other(last_rt.from)].sent_packets # EmptyMap

----------------------------------------------------------------------------
(* The packet writer, continued *)

\* the section get_bytes is to emit for `count` accepted items
SectionOf(manager_type, count, working_bytes) ==
    IF count > 0 THEN << manager_type, count >> \o working_bytes ELSE <<>>

\* C14: get_bytes() returns the Event section then the Entity section, each
\* present exactly when items were accepted into it and counting them, and
\* leaves a fresh writer, whose own get_bytes() returns an empty body.
C14_GetBytes ==
    [][pw_op' = "get_bytes" =>
          /\ pw_body' =
                SectionOf(ManagerTypeEvent, Len(ItemsOf("Event")),
                          pw.event_working_bytes)
                \o SectionOf(ManagerTypeEntity, Len(ItemsOf("Entity")),
                             pw.entity_working_bytes)
          /\ pw' = PacketWriterNew
          /\ ~has_bytes(pw')
          /\ get_bytes(pw').body = <<>>
          /\ (pw_op = "get_bytes" => pw_body' = <<>>)]_vars

\* get_bytes() has just emitted a body with two events and an entity message
C14_Witness ==
    /\ pw_op = "get_bytes"
    /\ pw_prev.event_count = 2
    /\ pw_prev.entity_message_count = 1
    /\ pw_body[1] = ManagerTypeEvent
    /\ pw_body[Len(pw_prev.event_working_bytes) + 3] = ManagerTypeEntity

----------------------------------------------------------------------------
(* One process_incoming call *)

\* the sequences a header with ack_seq = a speaks about
AckWindow(a) ==
    {a} \cup {WrappingSub(a, i) : i \in 1..REDUNDANT_PACKET_ACKS_SIZE}

\* the notification the header read owes to a Data packet k of its window
Owed(header, k) ==
    IF k = header.ack_seq THEN Delivered(k)
    ELSE IF \E i \in 1..REDUNDANT_PACKET_ACKS_SIZE :
               k = WrappingSub(header.ack_seq, i) /\ (i - 1) \in header.ack_field
         THEN Delivered(k)
         ELSE Dropped(k)

\* the notifications of a sequence of them that concern k
About(notifs, k) == SelectSeq(notifs, LAMBDA n : n.seq = k)

\* C15: one process_incoming call removes every sent_packets entry in the
\* window a, a-1 .. a-32 of its header, emits for each such Data entry exactly
\* one notification (delivered for a and for a set bit, dropped for a clear
\* bit), none for entries of other types, and leaves the entries outside the
\* window untouched.
C15_OneCall ==
    [][lastOp' = "process_incoming" =>
          /\ \A k \in DOMAIN am.sent_packets :
                IF k \in AckWindow(last_in'.ack_seq)
                THEN /\ k \notin DOMAIN am'.sent_packets
                     /\ About(last_notifs', k) =
                           IF am.sent_packets[k].packet_type = "Data"
                           THEN << Owed(last_in', k) >>
                           ELSE <<>>
                ELSE /\ k \in DOMAIN am'.sent_packets
                     /\ am'.sent_packets[k] = am.sent_packets[k]
                     /\ About(last_notifs', k) = <<>>
          /\ DOMAIN am'.sent_packets \subseteq DOMAIN am.sent_packets
          /\ \A n \in Range(last_notifs') : n.seq \in DOMAIN am.sent_packets]_vars

\* one call reported a delivery and a drop, removed a Heartbeat entry in
\* silence and left a newer entry in place
C15_Witness ==
    /\ lastOp = "process_incoming"
    /\ \E n \in Range(last_notifs) : n.kind = "delivered"
    /\ \E n \in Range(last_notifs) : n.kind = "dropped"
    /\ \E i \in DOMAIN sent_log :
          /\ sent_log[i].packet_type = "Heartbeat"
          /\ sent_log[i].sequence \in AckWindow(last_in.ack_seq)
          /\ sent_log[i].sequence \notin DOMAIN am.sent_packets
    /\ \E k \in DOMAIN am.sent_packets : k \notin AckWindow(last_in.ack_seq)

----------------------------------------------------------------------------
(* get_outgoing_packet *)

\* the first payload bytes of a sequence of events
FirstBytes(events) == [i \in DOMAIN events |-> events[i].payload[1]]

\* C16: the index get_outgoing_packet pops (and unpops) under is the sequence
\* stamped in the header of the Data packet it returns, so the events the
\* EventManager remembers under a sequence are exactly the events written into
\* the packet of that sequence; when it returns None the AckManager (local
\* sequence number, sent_packets) is as before.
C16_IndexIsSequence ==
    [][lastOp' = "get_outgoing_packet" =>
          /\ out_packet'.some =>
                /\ out_packet'.index = last_out'.sequence
                /\ last_out'.sequence = local_sequence_num(am)
                /\ last_out'.packet_type = "Data"
                /\ last_out'.sequence \in DOMAIN am'.sent_packets
                /\ last_out'.sequence \in DOMAIN em'.sent_events
          /\ ~out_packet'.some => am' = am
          /\ \A s \in DOMAIN em'.sent_events :
                /\ s \in DOMAIN packet_events'
                /\ FirstBytes(em'.sent_events[s]) = packet_events'[s]]_vars

\* a second packet was returned with two events in it, a third one having
\* been refused and put back
C16_Witness ==
    /\ lastOp = "get_outgoing_packet"
    /\ out_packet.some
    /\ Len(packet_events[last_out.sequence]) = 2
    /\ has_outgoing_events(em)

----------------------------------------------------------------------------
(* Section counts *)

\* C17: event_count and entity_message_count each equal the number of items
\* accepted in their section since the last get_bytes(), never exceed 255 and
\* never wrap to 0; a write on a section whose count is 255 is refused and
\* leaves the writer unchanged.
C17_CountsNeverOverflow ==
    /\ pw.event_count = Len(ItemsOf("Event"))
    /\ pw.entity_message_count = Len(ItemsOf("Entity"))
    /\ pw.event_count <= 255
    /\ pw.entity_message_count <= 255
    /\ pw_items # <<>> => has_bytes(pw)
    /\ (pw_op = "write_event" /\ pw_prev.event_count = 255) =>
          (~pw_ret /\ pw = pw_prev)
    /\ (pw_op = "write_entity_message" /\ pw_prev.entity_message_count = 255) =>
          (~pw_ret /\ pw = pw_prev)

\* a section holds as many smallest items as the MTU lets in, and one more
\* was refused
C17_Witness ==
    /\ pw_op = "write_event"
    /\ ~pw_ret
    /\ pw = pw_prev
    /\ pw.event_count > 128
    /\ ~Fits(HypotheticalSize(pw, EventTotalBytes(1, <<>>), pw.event_count))

----------------------------------------------------------------------------
(* Send progress *)

\* the events waiting in the queue or remembered under a packet index
EventsHeld(e) ==
    Range(e.queued_outgoing_events)
        \cup UNION {Range(e.sent_events[s]) : s \in DOMAIN e.sent_events}

\* C19: whenever the outgoing queue is not empty, get_outgoing_packet returns
\* a Data packet that carries at least the event at the head of the queue, and
\* no event is lost by the call: the refused one is back in the queue.
C19_SendProgress ==
    [][(lastOp' = "get_outgoing_packet" /\ has_outgoing_events(em)) =>
          /\ out_packet'.some
          /\ last_out'.packet_type = "Data"
          /\ Head(em.queued_outgoing_events).payload[1]
                \in Range(packet_events'[last_out'.sequence])
          /\ EventsHeld(em') = EventsHeld(em)]_vars

----------------------------------------------------------------------------
(* The reader position handed to the entity manager *)

\* the writer with its Entity section alone
WithoutEvents(w) == [w EXCEPT !.event_count = 0, !.event_working_bytes = <<>>]

\* where the Entity section starts in the body get_bytes makes of the writer
EntitySectionStart(w) ==
    IF w.event_count # 0 THEN 2 + Len(w.event_working_bytes) + 1 ELSE 1

\* whether the body's Event section, if it has one, is read to its end
EventsReadable(body) ==
    (body # <<>> /\ body[1] = ManagerTypeEvent) =>
        process_event_data(EventManagerNew, body, 2).ok

\* the bytes of the Entity section already consumed when process_data is called
EntityConsumed(w) ==
    process_incoming_data(EventManagerNew, get_bytes(w).body).entity_pos
        - EntitySectionStart(w)

\* C20: for a body made by get_bytes(), entity_manager.process_data is called
\* with as many bytes of the Entity section consumed when an Event section
\* precedes it as when the body holds the Entity section alone, and it is not
\* called for a body that holds only an Event section.
C20_SameReaderPosition ==
    (pw_op = "get_bytes" /\ EventsReadable(pw_body)) =>
        /\ (pw_prev.event_count # 0 /\ pw_prev.entity_message_count # 0) =>
              /\ process_incoming_data(EventManagerNew, pw_body).entity_called
              /\ process_incoming_data(
                    EventManagerNew,
                    get_bytes(WithoutEvents(pw_prev)).body).entity_called
              /\ EntityConsumed(pw_prev) = EntityConsumed(WithoutEvents(pw_prev))
        /\ (pw_prev.event_count # 0 /\ pw_prev.entity_message_count = 0) =>
              ~process_incoming_data(EventManagerNew, pw_body).entity_called

====
